---- MODULE Spec2Model ----
(***************************************************************************)
(* The task-list screen of src/ToDo/App.tsx (component TodoApp) as a state *)
(* machine: the React state cells are the variables, every handler is one  *)
(* action, the functional updaters handed to setTodos are operators on the *)
(* list, and the derived values (filtered, remaining) are operators.       *)
(*                                                                         *)
(* Strings are sequences of one-character strings, so that trim,           *)
(* toLowerCase and includes are computed and not assumed.                  *)
(***************************************************************************)
EXTENDS Integers, Sequences, FiniteSets, TLC

VARIABLES todos, input, filter, priority, search, editingId, editText,
          clock, alertOpen, pendingBlur, lastOp, issued, editGone

vars == <<todos, input, filter, priority, search, editingId, editText,
          clock, alertOpen, pendingBlur, lastOp, issued, editGone>>

\* todos .. editText are the state cells of TodoApp; clock is Date.now();
\* alertOpen says that the alert of clearCompleted is up; pendingBlur is the
\* blur event queued behind a submit of the edit field.  Three cells record
\* history and are read by no handler: lastOp is the handler that ran last,
\* issued the ids addTodo has given so far, and editGone says that a task
\* open for edit was removed from the list since the edit was started.

(* ------------------------------ bounds --------------------------------- *)

\* Longest task list explored (addTodo is not taken beyond it).
MaxTodos == 2

\* Last reading of the millisecond clock explored (Date.now() in 0..MaxClock).
MaxClock == 1

(* ------------------------------ strings -------------------------------- *)

\* String.prototype.trim: drops the white space at both ends.
RECURSIVE trimStart(_)
trimStart(s) ==
  IF s # <<>> /\ Head(s) = " " THEN trimStart(Tail(s)) ELSE s

RECURSIVE trimEnd(_)
trimEnd(s) ==
  IF s # <<>> /\ s[Len(s)] = " " THEN trimEnd(SubSeq(s, 1, Len(s) - 1)) ELSE s

trim(s) == trimEnd(trimStart(s))

\* String.prototype.toLowerCase, on the letters the model types.
lowerChar(c) ==
  CASE c = "A" -> "a"
    [] c = "B" -> "b"
    [] OTHER   -> c

toLowerCase(s) == [i \in 1..Len(s) |-> lowerChar(s[i])]

\* String.prototype.includes: sub occurs in s as a contiguous run.
includes(s, sub) ==
  \E k \in 0..(Len(s) - Len(sub)) : SubSeq(s, k + 1, k + Len(sub)) = sub

\* JavaScript truthiness of a string: '' is falsy.
truthyText(s) == s # <<>>

(* ------------------------------- values -------------------------------- *)

\* editingId is string | null; null is this value, which no id equals.
Null == "null"

\* `if (editingId)`: null and '' are falsy.
truthyId(x) == x # Null /\ x # ""

\* Date.now().toString()
idOf(now) == ToString(now)

Priorities == {"high", "medium", "low"}
Filters == {"all", "active", "completed"}

\* The ids a handler may be called with: every id addTodo can produce, and
\* one that no task ever has.
Ids == {idOf(n) : n \in 0..MaxClock} \cup {"x"}

\* What the user types in the three text fields.
InputTexts == { <<" ">>, <<" ", "a", " ">> }
AddTexts == { <<" ", "a", " ">> }
EditTexts == { <<" ", " ">>, <<"B", " ">> }
SearchTexts == { <<>>, <<"b">>, <<"A">>, <<"A", "b">>, <<"b", "b">> }

\* The task texts of the lists the derived view is computed on.
ViewTexts == { <<"a">>, <<"a", "B">>, <<"B", "a">> }

NoBlur == [pending |-> FALSE, id |-> Null, text |-> <<>>]

(* ----------------------- the setTodos updaters ------------------------- *)

\* Faulty variant: the new task is put behind the others
appendTodo(prev, id, text, prio, createdAt) ==
  prev \o << [id |-> id, text |-> text, completed |-> FALSE,
              priority |-> prio, createdAt |-> createdAt] >>

\* prev => [ {id, text, completed: false, priority, createdAt}, ...prev ]
prependTodo(prev, id, text, prio, createdAt) ==
  << [id |-> id, text |-> text, completed |-> FALSE,
      priority |-> prio, createdAt |-> createdAt] >> \o prev

\* Faulty variant: the task is marked completed instead of inverted
toggleMapSetDone(prev, id) ==
  [i \in 1..Len(prev) |->
     IF prev[i].id = id THEN [prev[i] EXCEPT !.completed = TRUE] ELSE prev[i]]

\* Faulty variant: the toggled tasks are moved behind the others
toggleMapToEnd(prev, id) ==
  SelectSeq(prev, LAMBDA t : t.id # id) \o
  [i \in 1..Len(SelectSeq(prev, LAMBDA t : t.id = id)) |->
     [SelectSeq(prev, LAMBDA t : t.id = id)[i]
        EXCEPT !.completed = ~SelectSeq(prev, LAMBDA t : t.id = id)[i].completed]]

\* prev.map(t => (t.id === id ? { ...t, completed: !t.completed } : t))
toggleMap(prev, id) ==
  [i \in 1..Len(prev) |->
     IF prev[i].id = id THEN [prev[i] EXCEPT !.completed = ~prev[i].completed]
     ELSE prev[i]]

\* prev.filter(t => t.id !== id)
deleteFilter(prev, id) == SelectSeq(prev, LAMBDA t : t.id # id)

\* Faulty variant: the predicate is inverted: the completed tasks are kept
clearFilterKeepsDone(prev) == SelectSeq(prev, LAMBDA t : t.completed)

\* prev.filter(t => !t.completed)
clearFilter(prev) == SelectSeq(prev, LAMBDA t : ~t.completed)

\* Faulty variant: the edited task is rebuilt with the default priority
editMapResetsPriority(prev, id, text) ==
  [i \in 1..Len(prev) |->
     IF prev[i].id = id
     THEN [prev[i] EXCEPT !.text = text, !.priority = "medium"]
     ELSE prev[i]]

\* prev.map(t => (t.id === editingId ? { ...t, text } : t))
editMap(prev, id, text) ==
  [i \in 1..Len(prev) |->
     IF prev[i].id = id THEN [prev[i] EXCEPT !.text = text] ELSE prev[i]]

(* --------------------------- derived values ---------------------------- *)

matchesFilter(t, f) ==
  IF f = "active" THEN ~t.completed
  ELSE IF f = "completed" THEN t.completed
  ELSE TRUE

\* Faulty variant: the task text is not lower-cased
matchesSearchCased(t, s) ==
  s = <<>> \/ includes(t.text, toLowerCase(s))

matchesSearch(t, s) ==
  s = <<>> \/ includes(toLowerCase(t.text), toLowerCase(s))

\* const filtered = todos.filter(t => matchesFilter && matchesSearch)
filteredOf(list, f, s) ==
  SelectSeq(list, LAMBDA t : matchesFilter(t, f) /\ matchesSearch(t, s))

filtered == filteredOf(todos, filter, search)

\* const remaining = todos.filter(t => !t.completed).length
remainingOf(list) == Len(SelectSeq(list, LAMBDA t : ~t.completed))

remaining == remainingOf(todos)

\* Faulty variant: the quotient is taken without the test on todos.length
completionPctUnguarded(list) ==
  [num |-> Len(list) - remainingOf(list), den |-> Len(list)]

\* todos.length > 0 ? (todos.length - remaining) / todos.length : 0, as the
\* fraction num / den (the number 0 is 0 / 1; den = 0 is a division by zero).
completionPctOf(list) ==
  IF Len(list) > 0
  THEN [num |-> Len(list) - remainingOf(list), den |-> Len(list)]
  ELSE [num |-> 0, den |-> 1]

completionPct == completionPctOf(todos)

(* ------------------------------- saveEdit ------------------------------ *)

\* The body of saveEdit run with the editingId and editText its closure
\* holds, on the list prev: the list and editing id it leaves, and whether
\* it called setTodos (wrote) and setEditingId (closed).
saveEditRun(prev, curId, cId, cText) ==
  IF truthyId(cId)
  THEN LET text == trim(cText) IN
       [todos |-> IF truthyText(text) THEN editMap(prev, cId, text) ELSE prev,
        editingId |-> Null,
        wrote |-> truthyText(text),
        closed |-> TRUE]
  ELSE [todos |-> prev, editingId |-> curId, wrote |-> FALSE, closed |-> FALSE]

(* -------------------------------- Init --------------------------------- *)

Init ==
  /\ todos = <<>>
  /\ input = <<>>
  /\ filter = "all"
  /\ priority = "medium"
  /\ search = <<>>
  /\ editingId = Null
  /\ editText = <<>>
  /\ clock = 0
  /\ alertOpen = FALSE
  /\ pendingBlur = NoBlur
  /\ lastOp = "init"
  /\ issued = {}
  /\ editGone = FALSE

\* The user can reach the screen: no alert is up and no event is queued.
idle == ~alertOpen /\ ~pendingBlur.pending

\* History: the step from list prev to list next removes a task that is
\* open for edit.
removesEdited(prev, next) ==
  /\ truthyId(editingId)
  /\ Cardinality({i \in 1..Len(next) : next[i].id = editingId})
       < Cardinality({i \in 1..Len(prev) : prev[i].id = editingId})

(* ------------------------------- actions ------------------------------- *)

\* The millisecond clock advances between two events.
Tick ==
  /\ clock < MaxClock
  /\ clock' = clock + 1
  /\ UNCHANGED <<todos, input, filter, priority, search, editingId, editText,
                 alertOpen, pendingBlur, lastOp>>
  /\ UNCHANGED <<issued, editGone>>

setInput(t) ==
  /\ idle
  /\ input' = t
  /\ lastOp' = "setInput"
  /\ UNCHANGED <<todos, filter, priority, search, editingId, editText,
                 clock, alertOpen, pendingBlur>>
  /\ UNCHANGED <<issued, editGone>>

setPriority(p) ==
  /\ idle
  /\ priority' = p
  /\ lastOp' = "setPriority"
  /\ UNCHANGED <<todos, input, filter, search, editingId, editText,
                 clock, alertOpen, pendingBlur>>
  /\ UNCHANGED <<issued, editGone>>

setFilter(f) ==
  /\ idle
  /\ filter' = f
  /\ lastOp' = "setFilter"
  /\ UNCHANGED <<todos, input, priority, search, editingId, editText,
                 clock, alertOpen, pendingBlur>>
  /\ UNCHANGED <<issued, editGone>>

setSearch(s) ==
  /\ idle
  /\ search' = s
  /\ lastOp' = "setSearch"
  /\ UNCHANGED <<todos, input, filter, priority, editingId, editText,
                 clock, alertOpen, pendingBlur>>
  /\ UNCHANGED <<issued, editGone>>

setEditText(t) ==
  /\ idle
  /\ truthyId(editingId)
  /\ editText' = t
  /\ lastOp' = "setEditText"
  /\ UNCHANGED <<todos, input, filter, priority, search, editingId,
                 clock, alertOpen, pendingBlur>>
  /\ UNCHANGED <<issued, editGone>>

\* Faulty variant: the input is used as typed, not trimmed
addTextUntrimmed(inp) == inp

\* const text = input.trim()
addText(inp) == trim(inp)

\* addTodo: the two Date.now() calls read the clock one after the other, so
\* the second may already see the next millisecond.
addTodo ==
  /\ idle
  /\ LET text == addText(input) IN
     IF ~truthyText(text)
     THEN UNCHANGED <<todos, input, clock, issued>>
     ELSE /\ Len(todos) < MaxTodos
          /\ \E now2 \in {clock, clock + 1} :
               /\ now2 <= MaxClock
               /\ todos' = prependTodo(todos, idOf(clock), text, priority, now2)
               /\ clock' = now2
          /\ issued' = issued \cup {idOf(clock)}
          /\ input' = <<>>
  /\ lastOp' = "addTodo"
  /\ UNCHANGED <<filter, priority, search, editingId, editText,
                 alertOpen, pendingBlur>>
  /\ UNCHANGED editGone

toggleTodo(id) ==
  /\ idle
  /\ todos' = toggleMap(todos, id)
  /\ lastOp' = "toggleTodo"
  /\ UNCHANGED <<input, filter, priority, search, editingId, editText,
                 clock, alertOpen, pendingBlur>>
  /\ UNCHANGED <<issued, editGone>>

deleteTodo(id) ==
  /\ idle
  /\ todos' = deleteFilter(todos, id)
  /\ lastOp' = "deleteTodo"
  /\ UNCHANGED <<input, filter, priority, search, editingId, editText,
                 clock, alertOpen, pendingBlur>>
  /\ editGone' = (editGone \/ removesEdited(todos, todos'))
  /\ UNCHANGED issued

\* Faulty variant: the completed tasks are removed at the press, with no
\* alert
clearCompletedAtOnce ==
  /\ idle
  /\ \E i \in 1..Len(todos) : todos[i].completed
  /\ todos' = clearFilter(todos)
  /\ lastOp' = "clearCompleted"
  /\ editGone' = (editGone \/ removesEdited(todos, todos'))
  /\ UNCHANGED <<input, filter, priority, search, editingId, editText,
                 clock, alertOpen, pendingBlur, issued>>

\* clearCompleted only shows the alert; the footer renders its button only
\* when some task is completed.
clearCompleted ==
  /\ idle
  /\ \E i \in 1..Len(todos) : todos[i].completed
  /\ alertOpen' = TRUE
  /\ lastOp' = "clearCompleted"
  /\ UNCHANGED <<todos, input, filter, priority, search, editingId, editText,
                 clock, pendingBlur>>
  /\ UNCHANGED <<issued, editGone>>

\* The alert's Cancel button.
alertCancel ==
  /\ alertOpen
  /\ alertOpen' = FALSE
  /\ lastOp' = "alertCancel"
  /\ UNCHANGED <<todos, input, filter, priority, search, editingId, editText,
                 clock, pendingBlur>>
  /\ UNCHANGED <<issued, editGone>>

\* The alert's Clear button: onPress.
alertClear ==
  /\ alertOpen
  /\ todos' = clearFilter(todos)
  /\ alertOpen' = FALSE
  /\ lastOp' = "alertClear"
  /\ UNCHANGED <<input, filter, priority, search, editingId, editText,
                 clock, pendingBlur>>
  /\ editGone' = (editGone \/ removesEdited(todos, todos'))
  /\ UNCHANGED issued

\* Faulty variant: the working text is left as it was
startEditKeepsText(i) ==
  /\ idle
  /\ i \in 1..Len(filtered)
  /\ editingId' = filtered[i].id
  /\ lastOp' = "startEdit"
  /\ UNCHANGED <<todos, input, filter, priority, search, editText,
                 clock, alertOpen, pendingBlur>>
  /\ editGone' = FALSE
  /\ UNCHANGED issued

\* Long press on a rendered row.
startEdit(i) ==
  /\ idle
  /\ i \in 1..Len(filtered)
  /\ editingId' = filtered[i].id
  /\ editText' = filtered[i].text
  /\ lastOp' = "startEdit"
  /\ UNCHANGED <<todos, input, filter, priority, search,
                 clock, alertOpen, pendingBlur>>
  /\ editGone' = FALSE
  /\ UNCHANGED issued

\* saveEdit called with the closure of the current render (onBlur of the
\* edit field; the field also blurs while the alert is up).
saveEdit ==
  /\ ~pendingBlur.pending
  /\ LET r == saveEditRun(todos, editingId, editingId, editText) IN
       /\ todos' = r.todos
       /\ editingId' = r.editingId
  /\ lastOp' = "saveEdit"
  /\ UNCHANGED <<input, filter, priority, search, editText,
                 clock, alertOpen, pendingBlur>>
  /\ editGone' = (editGone /\ truthyId(editingId'))
  /\ UNCHANGED issued

\* onSubmitEditing of the edit field: saveEdit runs, and the field's blur
\* event follows with the handler of the render the field was in.
submitEditing ==
  /\ idle
  /\ \E i \in 1..Len(filtered) : filtered[i].id = editingId
  /\ LET r == saveEditRun(todos, editingId, editingId, editText) IN
       /\ todos' = r.todos
       /\ editingId' = r.editingId
  /\ pendingBlur' = [pending |-> TRUE, id |-> editingId, text |-> editText]
  /\ lastOp' = "submitEditing"
  /\ UNCHANGED <<input, filter, priority, search, editText, clock, alertOpen>>
  /\ editGone' = (editGone /\ truthyId(editingId'))
  /\ UNCHANGED issued

\* The closures the queued blur's saveEdit may run with: the one captured
\* before the submit handler ran (stale), or the re-rendered one.
blurClosures ==
  { [id |-> pendingBlur.id, text |-> pendingBlur.text],
    [id |-> editingId, text |-> editText] }

blurAfterSubmit ==
  /\ pendingBlur.pending
  /\ \E c \in blurClosures :
       LET r == saveEditRun(todos, editingId, c.id, c.text) IN
         /\ todos' = r.todos
         /\ editingId' = r.editingId
  /\ pendingBlur' = NoBlur
  /\ lastOp' = "blurAfterSubmit"
  /\ UNCHANGED <<input, filter, priority, search, editText, clock, alertOpen>>
  /\ editGone' = (editGone /\ truthyId(editingId'))
  /\ UNCHANGED issued

(* --------------------------- specifications ---------------------------- *)

\* The task list and its mutators: typing and adding, toggling, deleting and
\* clearing.  The cells left at their initial values here (filter, search,
\* editingId, editText) are read by none of these handlers.
Next ==
  \/ Tick
  \/ \E t \in InputTexts : setInput(t)
  \/ \E p \in Priorities : setPriority(p)
  \/ addTodo
  \/ \E id \in Ids : toggleTodo(id)
  \/ \E id \in Ids : deleteTodo(id)
  \/ clearCompleted
  \/ alertCancel
  \/ alertClear

Spec == Init /\ [][Next]_vars

\* The list with inline editing: every handler that writes todos or the
\* editing cells.  One task text is typed and the priority stays as it is
\* initially; with filter = 'all' and search = '' every task is rendered, so
\* no handler is less available here than under another filter.
NextEdit ==
  \/ Tick
  \/ \E t \in AddTexts : setInput(t)
  \/ \E t \in EditTexts : setEditText(t)
  \/ addTodo
  \/ \E id \in Ids : toggleTodo(id)
  \/ \E id \in Ids : deleteTodo(id)
  \/ clearCompleted
  \/ alertCancel
  \/ alertClear
  \/ \E i \in 1..MaxTodos : startEdit(i)
  \/ saveEdit
  \/ submitEditing
  \/ blurAfterSubmit

EditSpec == Init /\ [][NextEdit]_vars

\* The derived view: filtered is computed on every list of up to MaxTodos
\* tasks that adds at successive clock readings and toggles produce, under
\* every filter and search string.
ViewLists ==
  UNION { { [i \in 1..n |->
               [id |-> idOf(n - i), text |-> tx[i], completed |-> cp[i],
                priority |-> "medium", createdAt |-> n - i]] :
            tx \in [1..n -> ViewTexts], cp \in [1..n -> BOOLEAN] } :
          n \in 0..MaxTodos }

InitView ==
  /\ todos \in ViewLists
  /\ input = <<>>
  /\ filter = "all"
  /\ priority = "medium"
  /\ search = <<>>
  /\ editingId = Null
  /\ editText = <<>>
  /\ clock = IF todos = <<>> THEN 0 ELSE todos[1].createdAt
  /\ alertOpen = FALSE
  /\ pendingBlur = NoBlur
  /\ lastOp = "init"
  /\ issued = {todos[i].id : i \in 1..Len(todos)}
  /\ editGone = FALSE

NextView ==
  \/ \E f \in Filters : setFilter(f)
  \/ \E s \in SearchTexts : setSearch(s)
  \/ \E id \in Ids : toggleTodo(id)

ViewSpec == InitView /\ [][NextView]_vars

\* The fields of the tasks: the list's mutators with a priority picked
\* before an add and an edit committed by the blur of the edit field.  The
\* clock advances only inside addTodo, between its two readings.
NextFields ==
  \/ \E t \in AddTexts : setInput(t)
  \/ setPriority("high")
  \/ setEditText(<<"B", " ">>)
  \/ addTodo
  \/ \E id \in Ids : toggleTodo(id)
  \/ \E id \in Ids : deleteTodo(id)
  \/ clearCompleted
  \/ alertCancel
  \/ alertClear
  \/ \E i \in 1..MaxTodos : startEdit(i)
  \/ saveEdit

FieldsSpec == Init /\ [][NextFields]_vars

\* The controls beside the list: the filter tabs, the search box and the
\* priority picker together with the list's mutators and the opening and
\* the commit of an edit.  The completed filter hides rows; the search "A"
\* matches the one task text typed, ignoring case.
NextControls ==
  \/ \E t \in AddTexts : setInput(t)
  \/ setPriority("high")
  \/ setFilter("completed")
  \/ setSearch(<<"A">>)
  \/ addTodo
  \/ \E id \in Ids : toggleTodo(id)
  \/ \E id \in Ids : deleteTodo(id)
  \/ clearCompleted
  \/ alertCancel
  \/ alertClear
  \/ \E i \in 1..MaxTodos : startEdit(i)
  \/ saveEdit

ControlsSpec == Init /\ [][NextControls]_vars

(* ------------------- notions the properties are stated in -------------- *)

\* s is white space only (possibly empty).
isBlank(s) == \A i \in 1..Len(s) : s[i] = " "

spaces(n) == [i \in 1..n |-> " "]

\* r is s without its leading and trailing white space.
isTrimOf(r, s) ==
  /\ r = <<>> \/ (r[1] # " " /\ r[Len(r)] # " ")
  /\ \E a, b \in 0..Len(s) : s = spaces(a) \o r \o spaces(b)

hasId(list, id) == \E i \in 1..Len(list) : list[i].id = id

\* The positions at which two lists of the same length differ.
diffAt(a, b) == {i \in 1..Len(a) : a[i] # b[i]}

\* view is list restricted to the positions in S, in list order.
isRestriction(view, list, S) ==
  /\ Len(view) = Cardinality(S)
  /\ \A i \in S : view[Cardinality({j \in S : j <= i})] = list[i]

\* The step runs one of the handlers named in ops: every handler leaves its
\* name in lastOp, and only Tick, which runs none, leaves lastOp as it was.
ran(ops) == lastOp' \in ops /\ ~Tick

(* -------------------------------- C1 ----------------------------------- *)

\* C1: in every reachable state no two tasks of the list have the same id.
UniqueIds ==
  \A i, j \in 1..Len(todos) : i # j => todos[i].id # todos[j].id

(* -------------------------------- C2 ----------------------------------- *)

\* C2: an addTodo step creates a task iff the input is not blank: the list
\* grows by exactly one task when it is not, and is unchanged when it is.
AddIffNonBlank ==
  [][addTodo =>
       IF isBlank(input) THEN todos' = todos
       ELSE Len(todos') = Len(todos) + 1]_vars

\* A blank input has just been rejected by addTodo, on a list that earlier
\* adds have filled.
AddIffNonBlankWitness ==
  /\ lastOp = "addTodo"
  /\ input = <<" ">>
  /\ Len(todos) = MaxTodos

(* -------------------------------- C3 ----------------------------------- *)

\* C3: after a successful addTodo the new task is the first element, its
\* text is the trimmed input, it is not completed, it has the selected
\* priority, and the earlier tasks follow it unchanged and in order.
AddPrepends ==
  [][(addTodo /\ ~isBlank(input)) =>
       /\ todos' # <<>>
       /\ isTrimOf(todos'[1].text, input)
       /\ todos'[1].completed = FALSE
       /\ todos'[1].priority = priority
       /\ Tail(todos') = todos]_vars

\* A high-priority task has just been added in front of an older task.
AddPrependsWitness ==
  /\ lastOp = "addTodo"
  /\ Len(todos) = 2
  /\ todos[1].priority = "high"
  /\ todos[1].text = <<"a">>
  /\ todos[2].priority # "high"

(* -------------------------------- C4 ----------------------------------- *)

\* C4: toggle is its own inverse: after any toggleTodo(id) step a second
\* toggle of the same id gives back the list the step started from, and for
\* an id that no task has the step itself leaves the list unchanged.
ToggleTwice ==
  [][\A id \in Ids :
       toggleTodo(id) =>
         /\ toggleMap(todos', id) = todos
         /\ ~hasId(todos, id) => todos' = todos]_vars

\* A toggle has just run and left a completed task beside an open one.
ToggleTwiceWitness ==
  /\ lastOp = "toggleTodo"
  /\ \E i, j \in 1..Len(todos) : todos[i].completed /\ ~todos[j].completed

(* -------------------------------- C5 ----------------------------------- *)

\* C5: toggleTodo(id) for an id in the list inverts the completed flag of
\* exactly one element and leaves every other element, every other field
\* and the order unchanged.
ToggleInvertsExactlyOne ==
  [][\A id \in Ids :
       (toggleTodo(id) /\ hasId(todos, id)) =>
         /\ Len(todos') = Len(todos)
         /\ \E i \in 1..Len(todos) :
              /\ diffAt(todos, todos') = {i}
              /\ todos'[i] =
                   [todos[i] EXCEPT !.completed = ~todos[i].completed]]_vars

(* -------------------------------- C6 ----------------------------------- *)

\* C6: deleteTodo(id) for an id in the list removes exactly one task and
\* keeps the others unchanged and in order; deleting the id again, or
\* deleting an id no task has, leaves the list unchanged.
DeleteRemovesExactlyOne ==
  [][\A id \in Ids :
       deleteTodo(id) =>
         IF hasId(todos, id)
         THEN /\ Len(todos') = Len(todos) - 1
              /\ isRestriction(todos', todos,
                               {i \in 1..Len(todos) : todos[i].id # id})
              /\ deleteFilter(todos', id) = todos'
         ELSE todos' = todos]_vars

(* -------------------------------- C7 ----------------------------------- *)

\* A step that commits the edit that is open: saveEdit run by the blur or
\* by the submit event of the edit field.
commitStep == (saveEdit \/ submitEditing) /\ truthyId(editingId)

\* C7: committing the edit of a task with a blank working text leaves the
\* list unchanged; with a non-blank one the task with the editing id gets
\* the trimmed working text, and nothing else changes: no field of it but
\* text, no position, and no other task.
EditChangesOneText ==
  [][commitStep =>
       IF isBlank(editText) THEN todos' = todos
       ELSE /\ Len(todos') = Len(todos)
            /\ Cardinality(diffAt(todos, todos')) <= 1
            /\ \A i \in 1..Len(todos) :
                 IF todos[i].id = editingId
                 THEN /\ isTrimOf(todos'[i].text, editText)
                      /\ todos'[i] = [todos[i] EXCEPT !.text = todos'[i].text]
                 ELSE todos'[i] = todos[i]]_vars

(* -------------------------------- C8 ----------------------------------- *)

\* C8: when the submit event and the blur event of the edit field both call
\* saveEdit for one edit session, the second call writes no text and leaves
\* the list and the editing id as they are, whichever closure it runs with.
SecondCommitIsNoOp ==
  pendingBlur.pending =>
    \A c \in blurClosures :
      LET r == saveEditRun(todos, editingId, c.id, c.text) IN
        /\ ~r.wrote
        /\ r.todos = todos
        /\ r.editingId = editingId

(* -------------------------------- C9 ----------------------------------- *)

\* C9: the step that confirms clearCompleted leaves no completed task and
\* keeps exactly the tasks that were not completed, unchanged and in order;
\* being one step, it never leaves only some completed tasks removed.
ClearRemovesCompleted ==
  [][alertClear =>
       /\ \A i \in 1..Len(todos') : ~todos'[i].completed
       /\ isRestriction(todos', todos,
                        {i \in 1..Len(todos) : ~todos[i].completed})]_vars

\* The alert has just been confirmed and an open task is still in the list
\* (the alert only opens when some task is completed).
ClearRemovesCompletedWitness ==
  /\ lastOp = "alertClear"
  /\ todos # <<>>

(* -------------------------------- C10 ---------------------------------- *)

\* Two characters are the same letter up to case.
sameLetter(c, d) ==
  \/ c = d
  \/ {c, d} \subseteq {"a", "A"}
  \/ {c, d} \subseteq {"b", "B"}

\* s occurs in text when case is ignored.
occursIgnoringCase(s, text) ==
  \E k \in 0..Len(text) :
    /\ k + Len(s) <= Len(text)
    /\ \A j \in 1..Len(s) : sameLetter(text[k + j], s[j])

\* The task is to be shown under filter f and search string s.
shown(t, f, s) ==
  /\ \/ f = "all"
     \/ f = "active" /\ ~t.completed
     \/ f = "completed" /\ t.completed
  /\ s = <<>> \/ occursIgnoringCase(s, t.text)

\* C10: the derived view is exactly the tasks of the list that pass the
\* filter and the search, at their positions' order.
ViewIsShownSubsequence ==
  isRestriction(filtered, todos,
                {i \in 1..Len(todos) : shown(todos[i], filter, search)})

\* Under the active filter and the search "b" the view holds some but not
\* all tasks, one of them matching only when case is ignored.
ViewIsShownSubsequenceWitness ==
  /\ filter = "active"
  /\ search = <<"b">>
  /\ Len(filtered) >= 1
  /\ Len(filtered) < Len(todos)
  /\ \E i \in 1..Len(todos) : todos[i].completed /\ todos[i].text = <<"a", "B">>
  /\ \E i \in 1..Len(filtered) : filtered[i].text = <<"B", "a">>

(* -------------------------------- C11 ---------------------------------- *)

\* C11: remaining is the number of tasks that are not completed, and the
\* completion fraction is (total - remaining) / total for a non-empty list
\* and exactly 0, with no division by zero, for the empty one; so
\* 0 <= remaining <= total and the fraction lies between 0 and 1.
ProgressIsCompletedShare ==
  LET total == Len(todos)
      open == Cardinality({i \in 1..Len(todos) : ~todos[i].completed})
      f == completionPct
  IN /\ remaining = open
     /\ f.den > 0
     /\ total > 0 => f.num * total = (total - open) * f.den
     /\ total = 0 => f.num = 0
     /\ 0 <= remaining /\ remaining <= total
     /\ 0 <= f.num /\ f.num <= f.den

\* A toggle has just left one of two tasks completed: one remains, and the
\* fraction is a half.
ProgressIsCompletedShareWitness ==
  /\ lastOp = "toggleTodo"
  /\ Len(todos) = 2
  /\ remaining = 1
  /\ completionPct.num * 2 = completionPct.den

(* -------------------------------- C12 ---------------------------------- *)

\* const isEditing = editingId === item.id, for the task at position i.
isEditing(i) == editingId = todos[i].id

\* C12: in every reachable state at most one task of the list is open for
\* edit.
AtMostOneEditing ==
  Cardinality({i \in 1..Len(todos) : isEditing(i)}) <= 1

(* -------------------------------- C13 ---------------------------------- *)

\* The tasks of next are tasks of prev, each as it was and in the same
\* order (some may have been removed).
keptInOrder(next, prev) ==
  \E S \in SUBSET (1..Len(prev)) : isRestriction(next, prev, S)

\* C13: a task gets its id when it is created and keeps it, and an id that
\* addTodo has given once is never given to a task created later, whether
\* or not the earlier task is still in the list.
IdsNeverReused ==
  [][/\ (addTodo /\ ~isBlank(input)) =>
          /\ todos'[1].id \notin issued
          /\ Tail(todos') = todos
     /\ Len(todos') = Len(todos) =>
          \A i \in 1..Len(todos) : todos'[i].id = todos[i].id
     /\ Len(todos') < Len(todos) => keptInOrder(todos', todos)]_vars

(* -------------------------------- C14 ---------------------------------- *)

\* A step of one of the handlers that rewrite tasks in place.
inPlaceStep ==
  ran({"toggleTodo", "saveEdit", "submitEditing", "blurAfterSubmit"})

\* A step of one of the handlers that remove tasks.
removalStep == ran({"deleteTodo", "alertClear"})

Invocations ==
  { [op |-> "add", text |-> t] : t \in InputTexts \cup {<<"B">>} }
  \cup { [op |-> "toggle", id |-> id] : id \in Ids }
  \cup { [op |-> "delete", id |-> id] : id \in Ids }
  \cup { [op |-> "edit", id |-> id, text |-> t] :
           id \in Ids, t \in EditTexts \cup {<<"a">>} }
  \cup { [op |-> "clear"] }

\* The list a mutator invocation leaves, by the handler's updater.
apply(list, v) ==
  CASE v.op = "add" ->
         IF truthyText(addText(v.text))
         THEN prependTodo(list, idOf(clock), addText(v.text), priority, clock)
         ELSE list
    [] v.op = "toggle" -> toggleMap(list, v.id)
    [] v.op = "delete" -> deleteFilter(list, v.id)
    [] v.op = "edit" -> saveEditRun(list, v.id, v.id, v.text).todos
    [] v.op = "clear" -> clearFilter(list)

commute(a, b) == apply(apply(todos, a), b) = apply(apply(todos, b), a)

\* C15 as stated: any two mutator invocations give the same list in either
\* order.
AllMutatorsCommute ==
  \A a, b \in Invocations : commute(a, b)

\* The pairs that depend on their order: two adds, a toggle and
\* clearCompleted, two edits of one id, and an add with a toggle, delete or
\* edit of the id that the add gives.
orderDependent(a, b) ==
  \/ a.op = "add" /\ b.op = "add"
  \/ {a.op, b.op} = {"toggle", "clear"}
  \/ a.op = "edit" /\ b.op = "edit" /\ a.id = b.id
  \/ a.op = "add" /\ b.op \in {"toggle", "delete", "edit"} /\ b.id = idOf(clock)
  \/ b.op = "add" /\ a.op \in {"toggle", "delete", "edit"} /\ a.id = idOf(clock)

\* C15, amended: any two mutator invocations give the same list in either
\* order, unless the pair is one of the order-dependent ones.
MutatorsCommuteUnlessOrderDependent ==
  \A a, b \in Invocations : ~orderDependent(a, b) => commute(a, b)

\* Two tasks, one of them completed, on which some pair of different
\* invocations that is not order-dependent changes the list twice.
MutatorsCommuteWitness ==
  /\ lastOp = "toggleTodo"
  /\ Len(todos) = 2
  /\ \E i \in 1..2 : todos[i].completed
  /\ \E a, b \in Invocations :
       /\ a.op # b.op
       /\ ~orderDependent(a, b)
       /\ apply(todos, a) # todos
       /\ apply(apply(todos, a), b) # apply(todos, a)
       /\ apply(todos, b) # todos

(* -------------------------------- C16 ---------------------------------- *)

\* C16: completed tasks are removed only by the confirmation: pressing
\* clearCompleted and cancelling the alert leave the list unchanged, and the
\* confirming step, taken while the alert is up, removes exactly the tasks
\* that are completed in the list as it is at that step.
ClearOnlyOnConfirm ==
  [][/\ (clearCompleted \/ alertCancel) => todos' = todos
     /\ alertClear =>
          /\ alertOpen
          /\ ~alertOpen'
          /\ isRestriction(todos', todos,
                           {i \in 1..Len(todos) : ~todos[i].completed})]_vars

\* The alert has just been cancelled and the completed task it was about
\* is still in the list.
ClearOnlyOnConfirmWitness ==
  /\ lastOp = "alertCancel"
  /\ ~alertOpen
  /\ \E i \in 1..Len(todos) : todos[i].completed

(* -------------------------------- C17 ---------------------------------- *)

\* A step in which saveEdit runs, whichever event calls it.
saveEditStep == ran({"saveEdit", "submitEditing", "blurAfterSubmit"})

\* C17: the fields a handler does not own stay as they are.  Only addTodo
\* lengthens the list, and it leaves the tasks already there untouched; a
\* step that removes tasks leaves the others as they were; and in a step
\* that keeps the length no task changes its priority or createdAt, a text
\* changes only in a run of saveEdit and never in a toggle, and a completed
\* flag never changes in a run of saveEdit.
FieldsFrame ==
  [][todos' # todos =>
       /\ Len(todos') > Len(todos) =>
            ran({"addTodo"}) /\ Tail(todos') = todos
       /\ Len(todos') < Len(todos) => keptInOrder(todos', todos)
       /\ Len(todos') = Len(todos) =>
            \A i \in 1..Len(todos) :
              /\ todos'[i].priority = todos[i].priority
              /\ todos'[i].createdAt = todos[i].createdAt
              /\ todos'[i].text # todos[i].text =>
                   saveEditStep /\ ~ran({"toggleTodo"})
              /\ todos'[i].completed # todos[i].completed =>
                   ~saveEditStep]_vars

\* An edit has just been committed on a completed task of high priority:
\* it has the new text and is still completed and of high priority.
FieldsFrameWitness ==
  /\ lastOp = "saveEdit"
  /\ editingId = Null
  /\ \E i \in 1..Len(todos) :
       /\ todos[i].text = <<"B">>
       /\ todos[i].completed
       /\ todos[i].priority = "high"

(* -------------------------------- C18 ---------------------------------- *)

\* A step of one of the controls beside the list.
controlStep == ran({"setFilter", "setSearch", "setPriority", "startEdit"})

\* A step of one of the list's mutators; clearCompleted is the press and the
\* confirmation.
mutatorStep ==
  ran({"addTodo", "toggleTodo", "deleteTodo", "saveEdit", "submitEditing",
       "blurAfterSubmit", "clearCompleted", "alertClear"})

\* The positions of the list whose tasks are rendered.
shownAt == {j \in 1..Len(todos) : shown(todos[j], filter, search)}

\* C18: the list changes in no step of setFilter, setSearch, the priority
\* picker or startEdit; the filter and the search string change in no step
\* of add, toggle, delete, the edit commit or clearCompleted; and startEdit
\* sets editingId and editText to the id and the text of one task, a
\* rendered one.
ControlsFrame ==
  [][/\ todos' # todos => ~controlStep
     /\ (filter' # filter \/ search' # search) => ~mutatorStep
     /\ ran({"startEdit"}) =>
          \E j \in shownAt :
            /\ editingId' = todos[j].id
            /\ editText' = todos[j].text]_vars

\* An edit has just been opened on a task that the completed filter shows
\* first although it is not the first of the list.
ControlsFrameWitness ==
  /\ lastOp = "startEdit"
  /\ filter = "completed"
  /\ search = <<"A">>
  /\ Len(todos) > 1
  /\ ~todos[1].completed
  /\ editingId = filtered[1].id
  /\ editingId # todos[1].id
  /\ editText = filtered[1].text

(* -------------------------------- C19 ---------------------------------- *)

\* C19: a step of delete or of the confirmed clearCompleted leaves editingId
\* as it is, also when it removes the task open for edit; and when that task
\* has been removed since the edit was opened, the run of saveEdit that
\* commits the edit changes the text of no task, whatever was added in
\* between, and sets editingId to null.
RemovedEditCommitsNothing ==
  [][/\ removalStep => editingId' = editingId
     /\ (editGone /\ truthyId(editingId) /\ ran({"saveEdit", "submitEditing"})) =>
          /\ Len(todos') = Len(todos)
          /\ \A i \in 1..Len(todos) : todos'[i].text = todos[i].text
          /\ editingId' = Null]_vars

====
